---- MODULE Spec2Model ----
(***************************************************************************)
(* Model of monitoring-app/src/main.rs: the tick loop of main, the two     *)
(* spawned units pollution_task and temperature_task, the acquisition      *)
(* cycle get_air_quality_status, the reduction status_from_measurements    *)
(* and the publisher publish_status, with the shared Arc<Mutex<MqttClient>>*)
(* (std::sync::Mutex: blocking lock, poisoned by a panic of its holder).   *)
(***************************************************************************)
EXTENDS Integers, Sequences, FiniteSets, TLC

\* ---- bounds of the model ----
MaxTicks == 3
MaxMeasurements == 3
MaxWakeRetries == 1
MaxWarmupReads == 1
MaxCollectFailures == 2

\* ---- inputs ----
Units == {"pollution", "temperature"}

\* opts.topic
Topics == {"air", "home/air"}

\* OutputFrame values the PMS7003 may return (pm1_0, pm2_5, pm10 are u16)
Frames ==
  { [pm1_0 |-> 1, pm2_5 |-> 2, pm10 |-> 3],
    [pm1_0 |-> 12, pm2_5 |-> 25, pm10 |-> 40] }

\* bme280 Measurements (integer-valued readings)
Readings ==
  { [humidity |-> 45, temperature |-> 21, pressure |-> 1013],
    [humidity |-> 60, temperature |-> 8, pressure |-> 990] }

VARIABLES
  num_of_measurements, \* opts.measurements
  topic,               \* opts.topic
  main_pc,             \* position of main's loop
  tick,                \* number of interval.tick() completions
  pc,                  \* position of each spawned unit
  fault,               \* why a unit ended without returning its handle
  mainHas,             \* main owns the sensor handle (sensor / bme280)
  unitHas,             \* the unit owns the handle moved into it
  started,             \* number of units spawned so far, per sensor type
  wakeRetries,         \* iterations of the wake loop that looped back
  warmupReads,         \* reads made by the warm-up loop
  measurements,        \* Vec<OutputFrame> of the collect loop
  collectReads,        \* history: read() calls made by the collect loop
  collectFails,        \* history: those that returned Err
  cycleResult,         \* value returned by get_air_quality_status
  status,              \* AitQualityStatus held by pollution_task
  measurement,         \* bme280 measurement held by temperature_task
  holders,             \* units holding a MutexGuard of mqtt_client
  poisoned,            \* the mutex is poisoned
  log,                 \* publish calls made on the MqttClient in this tick, in order
  lastCall,            \* history: the last call made on the PMS7003 handle and its outcome
  steps,               \* history: the steps of get_air_quality_status begun in this cycle
  warmupErr,           \* history: a read() of the warm-up loop returned Err in this cycle
  unitTick,            \* the tick in which each unit was spawned
  retained             \* per topic, the tick of the unit whose message the broker retains

vars ==
  << num_of_measurements, topic, main_pc, tick, pc, fault, mainHas, unitHas,
     started, wakeRetries, warmupReads, measurements, collectReads,
     collectFails, cycleResult, status, measurement, holders, poisoned, log,
     lastCall, steps, warmupErr, unitTick, retained >>

mainVars == << main_pc, tick, mainHas, started >>
acqVars == << wakeRetries, warmupReads, measurements, collectReads, collectFails >>
cfgVars == << num_of_measurements, topic >>
mutexVars == << holders, poisoned >>
histVars == << lastCall, steps, warmupErr >>
wireVars == << unitTick, retained >>

NoResult == [kind |-> "none"]
NoStatus == [kind |-> "none"]
NoMeasurement == [kind |-> "none"]

\* ---- pure functions ----

RECURSIVE SumOf(_, _)
\* measurements.iter().map(|m| m.<ch> as u32).sum::<u32>(); a sum of at most
\* MaxMeasurements + 1 u16 values stays far below 2^32, so it never wraps here
SumOf(ms, ch) ==
  IF ms = <<>> THEN 0 ELSE ms[1][ch] + SumOf(Tail(ms), ch)

\* faulty variant of status_from_measurements: pm_10 is computed from the
\* pm2_5 values
status_from_measurements_WrongChannel(ms, now) ==
  [ kind |-> "status",
    pm_1_0 |-> SumOf(ms, "pm1_0") \div Len(ms),
    pm_2_5 |-> SumOf(ms, "pm2_5") \div Len(ms),
    pm_10 |-> SumOf(ms, "pm2_5") \div Len(ms),
    timestamp |-> now ]

\* status_from_measurements, for a non-empty slice; now stands for
\* chrono::Local::now(), which the model reads as the number of the tick
status_from_measurements(ms, now) ==
  [ kind |-> "status",
    pm_1_0 |-> SumOf(ms, "pm1_0") \div Len(ms),
    pm_2_5 |-> SumOf(ms, "pm2_5") \div Len(ms),
    pm_10 |-> SumOf(ms, "pm10") \div Len(ms),
    timestamp |-> now ]

Digit(d) == << "0", "1", "2", "3", "4", "5", "6", "7", "8", "9" >>[d + 1]

RECURSIVE ToDecimal(_)
\* format!("{}", n) of an unsigned integer: its decimal digits, most significant first
ToDecimal(n) ==
  IF n < 10 THEN << Digit(n) >> ELSE Append(ToDecimal(n \div 10), Digit(n % 10))

\* serde_json::to_string_pretty(status): the fields of the struct, in declaration order
ToJson(st) ==
  << << "pm_1_0", ToDecimal(st.pm_1_0) >>,
     << "pm_2_5", ToDecimal(st.pm_2_5) >>,
     << "pm_10", ToDecimal(st.pm_10) >>,
     << "timestamp", ToDecimal(st.timestamp) >> >>

\* one publish(topic, QoS::AtLeastOnce, true, payload) call
Message(t, payload) ==
  [ topic |-> t, qos |-> "AtLeastOnce", retain |-> TRUE, payload |-> payload ]

\* faulty variant of StatusMessages: the pm2_5 and pm10 payloads are exchanged
StatusMessages_Swapped(st, prefix) ==
  << Message(prefix \o "/status", ToJson(st)),
     Message(prefix \o "/pm1_0", ToDecimal(st.pm_1_0)),
     Message(prefix \o "/pm2_5", ToDecimal(st.pm_10)),
     Message(prefix \o "/pm10", ToDecimal(st.pm_2_5)) >>

\* the four publish calls of publish_status, in order
StatusMessages(st, prefix) ==
  << Message(prefix \o "/status", ToJson(st)),
     Message(prefix \o "/pm1_0", ToDecimal(st.pm_1_0)),
     Message(prefix \o "/pm2_5", ToDecimal(st.pm_2_5)),
     Message(prefix \o "/pm10", ToDecimal(st.pm_10)) >>

\* the three publish calls of temperature_task, in order
MeasurementMessages(m, prefix) ==
  << Message(prefix \o "/humidity", ToDecimal(m.humidity)),
     Message(prefix \o "/temperature", ToDecimal(m.temperature)),
     Message(prefix \o "/pressure", ToDecimal(m.pressure)) >>

\* the topics published under a prefix
TopicsOf(prefix) ==
  { prefix \o sub : sub \in {"/status", "/pm1_0", "/pm2_5", "/pm10",
                              "/humidity", "/temperature", "/pressure"} }

\* ---- initial state: main after lines 35-50 ----
Init ==
  /\ num_of_measurements \in 0..MaxMeasurements
  /\ topic \in Topics
  /\ main_pc = "tick"
  /\ tick = 0
  /\ pc = [u \in Units |-> "idle"]
  /\ fault = [u \in Units |-> "none"]
  /\ mainHas = [u \in Units |-> TRUE]
  /\ unitHas = [u \in Units |-> FALSE]
  /\ started = [u \in Units |-> 0]
  /\ wakeRetries = 0
  /\ warmupReads = 0
  /\ measurements = <<>>
  /\ collectReads = 0
  /\ collectFails = 0
  /\ cycleResult = NoResult
  /\ status = NoStatus
  /\ measurement = NoMeasurement
  /\ holders = {}
  /\ poisoned = FALSE
  /\ log = <<>>
  /\ lastCall = "none"
  /\ steps = <<>>
  /\ warmupErr = FALSE
  /\ unitTick = [u \in Units |-> 0]
  /\ retained = [t \in TopicsOf(topic) |-> 0]

\* a unit panics: its stack unwinds, dropping the handle it owns
Panicked(u, why) ==
  /\ pc' = [pc EXCEPT ![u] = "panicked"]
  /\ fault' = [fault EXCEPT ![u] = why]
  /\ unitHas' = [unitHas EXCEPT ![u] = FALSE]

\* ---- main ----

\* interval.tick().await; the log starts afresh for the new tick
Tick ==
  /\ main_pc = "tick"
  /\ tick < MaxTicks
  /\ tick' = tick + 1
  /\ main_pc' = "spawn_pollution"
  /\ log' = <<>>
  /\ UNCHANGED << pc, fault, mainHas, unitHas, started, acqVars, cycleResult,
                  status, measurement, mutexVars, cfgVars, histVars, wireVars >>

\* tokio::spawn(pollution_task(sensor, ...)): sensor is moved into the task
SpawnPollution ==
  /\ main_pc = "spawn_pollution"
  /\ main_pc' = "spawn_temperature"
  /\ pc' = [pc EXCEPT !["pollution"] = "spawned"]
  /\ mainHas' = [mainHas EXCEPT !["pollution"] = FALSE]
  /\ unitHas' = [unitHas EXCEPT !["pollution"] = TRUE]
  /\ started' = [started EXCEPT !["pollution"] = @ + 1]
  /\ wakeRetries' = 0
  /\ warmupReads' = 0
  /\ measurements' = <<>>
  /\ collectReads' = 0
  /\ collectFails' = 0
  /\ cycleResult' = NoResult
  /\ status' = NoStatus
  /\ steps' = <<>>
  /\ warmupErr' = FALSE
  /\ unitTick' = [unitTick EXCEPT !["pollution"] = tick]
  /\ UNCHANGED << tick, fault, measurement, mutexVars, log, cfgVars, lastCall,
                  retained >>

\* tokio::spawn(temperature_task(bme280, ...)): bme280 is moved into the task
SpawnTemperature ==
  /\ main_pc = "spawn_temperature"
  /\ main_pc' = "join_pollution"
  /\ pc' = [pc EXCEPT !["temperature"] = "spawned"]
  /\ mainHas' = [mainHas EXCEPT !["temperature"] = FALSE]
  /\ unitHas' = [unitHas EXCEPT !["temperature"] = TRUE]
  /\ started' = [started EXCEPT !["temperature"] = @ + 1]
  /\ measurement' = NoMeasurement
  /\ unitTick' = [unitTick EXCEPT !["temperature"] = tick]
  /\ UNCHANGED << tick, fault, acqVars, cycleResult, status, mutexVars, log,
                  cfgVars, histVars, retained >>

\* faulty variant of Join: the handle is taken back without waiting for the unit
Join_NoWait(u, next) ==
  /\ pc[u] \notin {"idle", "spawned"}
  /\ IF pc[u] = "panicked"
       THEN /\ main_pc' = "aborted"
            /\ UNCHANGED << pc, mainHas, unitHas >>
       ELSE /\ main_pc' = next
            /\ pc' = [pc EXCEPT ![u] = IF @ = "returned" THEN "idle" ELSE @]
            /\ mainHas' = [mainHas EXCEPT ![u] = TRUE]
            /\ unitHas' = [unitHas EXCEPT ![u] = pc[u] # "returned"]
  /\ UNCHANGED << tick, fault, started, acqVars, cycleResult, status,
                  measurement, mutexVars, log, cfgVars, histVars, wireVars >>

\* <handle>.await.unwrap(): wait for the unit; a JoinError (the unit
\* panicked) panics main, otherwise the handle moves back and the finished
\* task, with its locals, is gone
Join(u, next) ==
  /\ pc[u] \in {"returned", "panicked"}
  /\ IF pc[u] = "returned"
       THEN /\ main_pc' = next
            /\ pc' = [pc EXCEPT ![u] = "idle"]
            /\ mainHas' = [mainHas EXCEPT ![u] = TRUE]
            /\ unitHas' = [unitHas EXCEPT ![u] = FALSE]
            /\ status' = IF u = "pollution" THEN NoStatus ELSE status
            /\ measurement' = IF u = "temperature" THEN NoMeasurement ELSE measurement
       ELSE /\ main_pc' = "aborted"
            /\ UNCHANGED << pc, mainHas, unitHas, status, measurement >>
  /\ UNCHANGED << tick, fault, started, acqVars, cycleResult, mutexVars, log,
                  cfgVars, histVars, wireVars >>

\* faulty variant of JoinPollution: the task is left detached, not awaited
JoinPollution_Detached ==
  /\ main_pc = "join_pollution"
  /\ main_pc' = "join_temperature"
  /\ UNCHANGED << tick, pc, fault, mainHas, unitHas, started, acqVars,
                  cycleResult, status, measurement, mutexVars, log, cfgVars,
                  histVars, wireVars >>

\* sensor = pollution_task.await.unwrap()
JoinPollution ==
  /\ main_pc = "join_pollution"
  /\ Join("pollution", "join_temperature")

\* faulty variant of JoinTemperature: the task is left detached, not awaited
JoinTemperature_Detached ==
  /\ main_pc = "join_temperature"
  /\ main_pc' = "tick"
  /\ UNCHANGED << tick, pc, fault, mainHas, unitHas, started, acqVars,
                  cycleResult, status, measurement, mutexVars, log, cfgVars,
                  histVars, wireVars >>

\* bme280 = temperature_task.await.unwrap()
JoinTemperature ==
  /\ main_pc = "join_temperature"
  /\ Join("temperature", "tick")

\* the first position of each task's async block
FirstPc(u) == IF u = "pollution" THEN "wake" ELSE "measure"

\* faulty variant of Poll: the task takes the connection's guard as it starts
\* and keeps it for its whole run
Poll_LocksFirst ==
  /\ holders = {}
  /\ \E u \in Units :
       /\ pc[u] = "spawned"
       /\ pc' = [pc EXCEPT ![u] = FirstPc(u)]
       /\ holders' = {u}
  /\ UNCHANGED << mainVars, fault, unitHas, acqVars, cycleResult, status,
                  measurement, poisoned, log, cfgVars, histVars, wireVars >>

\* a worker of the runtime polls a spawned task for the first time; the
\* async blocks of both tasks hold no .await, so one poll runs the task to
\* its end
Poll ==
  /\ \E u \in Units :
       /\ pc[u] = "spawned"
       /\ pc' = [pc EXCEPT ![u] = FirstPc(u)]
  /\ UNCHANGED << mainVars, fault, unitHas, acqVars, cycleResult, status,
                  measurement, mutexVars, log, cfgVars, histVars, wireVars >>

\* the task is being run by a worker
Running(u) == pc[u] \notin {"idle", "spawned", "returned", "panicked", "cancelled"}

\* the task exists and has not panicked: it holds what was moved into it
Alive(u) == pc[u] \notin {"idle", "panicked", "cancelled"}

\* main has panicked: the runtime is dropped as main unwinds, which waits
\* for the tasks being run and drops those not yet polled; the process exits
ProcessExit ==
  /\ main_pc = "aborted"
  /\ \A u \in Units : ~Running(u)
  /\ main_pc' = "exited"
  /\ pc' = [u \in Units |-> IF pc[u] = "spawned" THEN "cancelled" ELSE pc[u]]
  /\ fault' = [u \in Units |-> IF pc[u] = "spawned" THEN "cancelled" ELSE fault[u]]
  /\ unitHas' = [u \in Units |-> IF pc[u] = "spawned" THEN FALSE ELSE unitHas[u]]
  /\ UNCHANGED << tick, mainHas, started, acqVars, cycleResult, status,
                  measurement, mutexVars, log, cfgVars, histVars, wireVars >>

\* ---- get_air_quality_status (called by pollution_task, line 80) ----

\* the cycle is in step st: it is recorded when the step begins
Step(st) ==
  steps' = IF steps # <<>> /\ steps[Len(steps)] = st THEN steps ELSE Append(steps, st)

\* the outcome of a call on the sensor
Outcome(call, ok) == call \o (IF ok THEN "_ok" ELSE "_err")

\* sensor.wake()?: an Err returns from get_air_quality_status
Wake ==
  /\ pc["pollution"] = "wake"
  /\ \E ok \in BOOLEAN :
       /\ lastCall' = Outcome("wake", ok)
       /\ IF ok
            THEN /\ pc' = [pc EXCEPT !["pollution"] = "wake_read"]
                 /\ UNCHANGED cycleResult
            ELSE /\ pc' = [pc EXCEPT !["pollution"] = "unwrap"]
                 /\ cycleResult' = [kind |-> "Err"]
  /\ Step("wake")
  /\ UNCHANGED << mainVars, fault, unitHas, acqVars, status, measurement,
                  mutexVars, log, cfgVars, warmupErr, wireVars >>

\* faulty variant of WakeRead: the loop is left whatever read() returned
WakeRead_IgnoresResult ==
  /\ pc["pollution"] = "wake_read"
  /\ \E ok \in BOOLEAN :
       /\ lastCall' = Outcome("read", ok)
       /\ pc' = [pc EXCEPT !["pollution"] = "warmup"]
       /\ wakeRetries' = 0
  /\ UNCHANGED << mainVars, fault, unitHas, warmupReads, measurements,
                  collectReads, collectFails, cycleResult, status, measurement,
                  mutexVars, log, cfgVars, steps, warmupErr, wireVars >>

\* if sensor.read().is_ok() { break; }: otherwise the loop calls wake() again
WakeRead ==
  /\ pc["pollution"] = "wake_read"
  /\ \E ok \in BOOLEAN :
       /\ lastCall' = Outcome("read", ok)
       /\ IF ok
            THEN /\ pc' = [pc EXCEPT !["pollution"] = "warmup"]
                 /\ wakeRetries' = 0
            ELSE /\ wakeRetries < MaxWakeRetries
                 /\ pc' = [pc EXCEPT !["pollution"] = "wake"]
                 /\ wakeRetries' = wakeRetries + 1
  /\ UNCHANGED << mainVars, fault, unitHas, warmupReads, measurements,
                  collectReads, collectFails, cycleResult, status, measurement,
                  mutexVars, log, cfgVars, steps, warmupErr, wireVars >>

\* faulty variant of Warmup: a frame read during warm-up is kept
Warmup_KeepsSamples ==
  /\ pc["pollution"] = "warmup"
  /\ \E ok \in BOOLEAN, elapsed \in BOOLEAN, frame \in Frames :
       /\ lastCall' = Outcome("read", ok)
       /\ warmupErr' = (warmupErr \/ ~ok)
       /\ measurements' = IF ok THEN Append(measurements, frame) ELSE measurements
       /\ IF elapsed
            THEN /\ pc' = [pc EXCEPT !["pollution"] = "collect"]
                 /\ warmupReads' = 0
            ELSE /\ warmupReads < MaxWarmupReads
                 /\ warmupReads' = warmupReads + 1
                 /\ UNCHANGED pc
  /\ Step("warmup")
  /\ UNCHANGED << mainVars, fault, unitHas, wakeRetries,
                  collectReads, collectFails, cycleResult, status, measurement,
                  mutexVars, log, cfgVars, wireVars >>

\* let _ = sensor.read(); leave once more than 30 s have passed
Warmup ==
  /\ pc["pollution"] = "warmup"
  /\ \E ok \in BOOLEAN, elapsed \in BOOLEAN :
       /\ lastCall' = Outcome("read", ok)
       /\ warmupErr' = (warmupErr \/ ~ok)
       /\ IF elapsed
            THEN /\ pc' = [pc EXCEPT !["pollution"] = "collect"]
                 /\ warmupReads' = 0
            ELSE /\ warmupReads < MaxWarmupReads
                 /\ warmupReads' = warmupReads + 1
                 /\ UNCHANGED pc
  /\ Step("warmup")
  /\ UNCHANGED << mainVars, fault, unitHas, wakeRetries, measurements,
                  collectReads, collectFails, cycleResult, status, measurement,
                  mutexVars, log, cfgVars, wireVars >>

\* the Err arm of the collect loop's match: the error is printed
CollectErr ==
  /\ collectFails < MaxCollectFailures
  /\ collectFails' = collectFails + 1
  /\ lastCall' = Outcome("read", FALSE)
  /\ UNCHANGED measurements

\* the Ok arm: measurements.push(measurement)
CollectOk(frame) ==
  /\ measurements' = Append(measurements, frame)
  /\ lastCall' = Outcome("read", TRUE)
  /\ UNCHANGED collectFails

\* faulty variant of CollectMore: the loop counts attempts, not successes
CollectMore_CountsAttempts == collectReads < num_of_measurements

\* the condition of the collect loop
CollectMore == Len(measurements) < num_of_measurements

\* one iteration of while measurements.len() < num_of_measurements
Collect ==
  /\ pc["pollution"] = "collect"
  /\ CollectMore
  /\ collectReads' = collectReads + 1
  /\ \/ \E frame \in Frames : CollectOk(frame)
     \/ CollectErr
  /\ Step("collect")
  /\ UNCHANGED << mainVars, pc, fault, unitHas, wakeRetries, warmupReads,
                  cycleResult, status, measurement, mutexVars, log, cfgVars,
                  warmupErr, wireVars >>

\* faulty variant of CollectExit: the status is computed without putting the
\* sensor to sleep
CollectExit_SkipsSleep ==
  /\ pc["pollution"] = "collect"
  /\ ~(Len(measurements) < num_of_measurements)
  /\ pc' = [pc EXCEPT !["pollution"] = "reduce"]
  /\ Step("collect")
  /\ UNCHANGED << mainVars, fault, unitHas, acqVars, cycleResult, status,
                  measurement, mutexVars, log, cfgVars, lastCall, warmupErr,
                  wireVars >>

\* the loop condition is false: "Going to sleep"
CollectExit ==
  /\ pc["pollution"] = "collect"
  /\ ~CollectMore
  /\ pc' = [pc EXCEPT !["pollution"] = "sleep"]
  /\ Step("collect")
  /\ UNCHANGED << mainVars, fault, unitHas, acqVars, cycleResult, status,
                  measurement, mutexVars, log, cfgVars, lastCall, warmupErr,
                  wireVars >>

\* let _ = sensor.sleep()
Sleep ==
  /\ pc["pollution"] = "sleep"
  /\ \E ok \in BOOLEAN :
       /\ lastCall' = Outcome("sleep", ok)
       /\ pc' = [pc EXCEPT !["pollution"] = "reduce"]
  /\ Step("sleep")
  /\ UNCHANGED << mainVars, fault, unitHas, acqVars, cycleResult, status,
                  measurement, mutexVars, log, cfgVars, warmupErr, wireVars >>

\* Ok(status_from_measurements(&measurements)): the division by
\* measurements.len() panics when the vector is empty
Reduce ==
  /\ pc["pollution"] = "reduce"
  /\ IF Len(measurements) = 0
       THEN /\ Panicked("pollution", "acquisition")
            /\ UNCHANGED cycleResult
       ELSE /\ pc' = [pc EXCEPT !["pollution"] = "unwrap"]
            /\ cycleResult' =
                 [kind |-> "Ok", status |-> status_from_measurements(measurements, tick)]
            /\ UNCHANGED << fault, unitHas >>
  /\ measurements' = <<>>
  /\ collectReads' = 0
  /\ collectFails' = 0
  /\ warmupErr' = FALSE
  /\ Step("reduce")
  /\ UNCHANGED << mainVars, wakeRetries, warmupReads, status, measurement,
                  mutexVars, log, cfgVars, lastCall, wireVars >>

\* ---- pollution_task ----

\* let status = get_air_quality_status(...).unwrap()
UnwrapStatus ==
  /\ pc["pollution"] = "unwrap"
  /\ IF cycleResult.kind = "Ok"
       THEN /\ status' = cycleResult.status
            /\ pc' = [pc EXCEPT !["pollution"] = "lock"]
            /\ UNCHANGED << fault, unitHas >>
       ELSE /\ Panicked("pollution", "acquisition")
            /\ UNCHANGED status
  /\ cycleResult' = NoResult
  /\ UNCHANGED << mainVars, acqVars, measurement, mutexVars, log, cfgVars,
                  histVars, wireVars >>

\* faulty variant of Lock: a guard is handed out while another one is alive
Lock_NoExclusion(u, next) ==
  /\ IF poisoned
       THEN /\ Panicked(u, "poisoned")
            /\ UNCHANGED holders
       ELSE /\ holders' = holders \cup {u}
            /\ pc' = [pc EXCEPT ![u] = next]
            /\ UNCHANGED << fault, unitHas >>
  /\ UNCHANGED poisoned

\* mqtt_client.lock().unwrap(): blocks while another guard is alive; on a
\* poisoned mutex lock() returns Err and unwrap panics
Lock(u, next) ==
  /\ holders = {}
  /\ IF poisoned
       THEN /\ Panicked(u, "poisoned")
            /\ UNCHANGED holders
       ELSE /\ holders' = {u}
            /\ pc' = [pc EXCEPT ![u] = next]
            /\ UNCHANGED << fault, unitHas >>
  /\ UNCHANGED poisoned

\* faulty variant of Publish: a failed publish is issued again
Publish_Retries(u, msg, next, last) ==
  \E ok \in BOOLEAN :
    /\ log' = Append(log, [unit |-> u, tick |-> unitTick[u], msg |-> msg, ok |-> ok])
    /\ retained' = IF ok THEN [retained EXCEPT ![msg.topic] = unitTick[u]] ELSE retained
    /\ IF ok
         THEN /\ pc' = [pc EXCEPT ![u] = next]
              /\ holders' = IF last THEN holders \ {u} ELSE holders
         ELSE UNCHANGED << pc, holders >>
    /\ UNCHANGED << fault, unitHas, poisoned >>

\* faulty variant of Publish: the guard is bound to a variable and outlives
\* the statement that took it
Publish_KeepsGuard(u, msg, next, last) ==
  \E ok \in BOOLEAN :
    /\ log' = Append(log, [unit |-> u, tick |-> unitTick[u], msg |-> msg, ok |-> ok])
    /\ retained' = IF ok THEN [retained EXCEPT ![msg.topic] = unitTick[u]] ELSE retained
    /\ IF ok
         THEN /\ pc' = [pc EXCEPT ![u] = next]
              /\ UNCHANGED << holders, fault, unitHas, poisoned >>
         ELSE /\ Panicked(u, "publish")
              /\ holders' = holders \ {u}
              /\ poisoned' = TRUE

\* .publish(...).unwrap() under the guard; an Err panics with the guard
\* alive, which poisons the mutex as the guard is dropped. last: the guard
\* is dropped after this call
Publish(u, msg, next, last) ==
  \E ok \in BOOLEAN :
    /\ log' = Append(log, [unit |-> u, tick |-> unitTick[u], msg |-> msg, ok |-> ok])
    /\ retained' = IF ok THEN [retained EXCEPT ![msg.topic] = unitTick[u]] ELSE retained
    /\ IF ok
         THEN /\ pc' = [pc EXCEPT ![u] = next]
              /\ holders' = IF last THEN holders \ {u} ELSE holders
              /\ UNCHANGED << fault, unitHas, poisoned >>
         ELSE /\ Panicked(u, "publish")
              /\ holders' = holders \ {u}
              /\ poisoned' = TRUE

\* publish_status(&mut mqtt_client.lock().unwrap(), ...): the guard is taken
PollutionLock ==
  /\ pc["pollution"] = "lock"
  /\ Lock("pollution", "pub_1")
  /\ UNCHANGED << mainVars, acqVars, cycleResult, status, measurement, log,
                  cfgVars, histVars, wireVars >>

PubPcs == << "pub_1", "pub_2", "pub_3", "pub_4" >>

\* publish_status: the k-th of its four publish calls; the guard taken at
\* line 81 is dropped when publish_status has returned, then sensor is returned
PublishStatus ==
  /\ \E k \in 1..4 :
       /\ pc["pollution"] = PubPcs[k]
       /\ Publish("pollution", StatusMessages(status, topic)[k],
                  IF k < 4 THEN PubPcs[k + 1] ELSE "returned", k = 4)
  /\ UNCHANGED << mainVars, acqVars, cycleResult, status, measurement, cfgVars,
                  histVars, unitTick >>

\* ---- temperature_task ----

\* let measurement = bme280.measure().unwrap()
Measure ==
  /\ pc["temperature"] = "measure"
  /\ \/ \E m \in Readings :
          /\ measurement' = m
          /\ pc' = [pc EXCEPT !["temperature"] = "lock_1"]
          /\ UNCHANGED << fault, unitHas >>
     \/ /\ Panicked("temperature", "acquisition")
        /\ UNCHANGED measurement
  /\ UNCHANGED << mainVars, acqVars, cycleResult, status, mutexVars, log,
                  cfgVars, histVars, wireVars >>

LockPcs == << "lock_1", "lock_2", "lock_3" >>
TPubPcs == << "tpub_1", "tpub_2", "tpub_3" >>

\* mqtt_client.lock().unwrap() of the k-th publish statement
TemperatureLock ==
  /\ \E k \in 1..3 :
       /\ pc["temperature"] = LockPcs[k]
       /\ Lock("temperature", TPubPcs[k])
  /\ UNCHANGED << mainVars, acqVars, cycleResult, status, measurement, log,
                  cfgVars, histVars, wireVars >>

\* .publish(...).unwrap() of the k-th statement; its guard is a temporary,
\* dropped at the end of the statement; after the third, bme280 is returned
TemperaturePublish ==
  /\ \E k \in 1..3 :
       /\ pc["temperature"] = TPubPcs[k]
       /\ Publish("temperature", MeasurementMessages(measurement, topic)[k],
                  IF k < 3 THEN LockPcs[k + 1] ELSE "returned", TRUE)
  /\ UNCHANGED << mainVars, acqVars, cycleResult, status, measurement, cfgVars,
                  histVars, unitTick >>

\* ---- specification ----
Next ==
  \/ Tick
  \/ SpawnPollution
  \/ SpawnTemperature
  \/ JoinPollution
  \/ JoinTemperature
  \/ ProcessExit
  \/ Poll
  \/ Wake
  \/ WakeRead
  \/ Warmup
  \/ Collect
  \/ CollectExit
  \/ Sleep
  \/ Reduce
  \/ UnwrapStatus
  \/ PollutionLock
  \/ PublishStatus
  \/ Measure
  \/ TemperatureLock
  \/ TemperaturePublish

Spec == Init /\ [][Next]_vars

\* the steps of main, of the runtime's workers and of the two tasks
MainNext ==
  Tick \/ SpawnPollution \/ SpawnTemperature \/ JoinPollution
    \/ JoinTemperature \/ ProcessExit

PollutionNext ==
  Wake \/ WakeRead \/ Warmup \/ Collect \/ CollectExit \/ Sleep \/ Reduce
    \/ UnwrapStatus \/ PollutionLock \/ PublishStatus

TemperatureNext == Measure \/ TemperatureLock \/ TemperaturePublish

\* the multi-threaded runtime of #[tokio::main] keeps running main and every
\* spawned task: none of them is left aside forever while it can take a step
FairSpec ==
  /\ Spec
  /\ WF_vars(MainNext)
  /\ WF_vars(Poll)
  /\ WF_vars(PollutionNext)
  /\ WF_vars(TemperatureNext)

\* ---- properties ----

TypeOK ==
  /\ num_of_measurements \in 0..MaxMeasurements
  /\ topic \in Topics
  /\ main_pc \in {"tick", "spawn_pollution", "spawn_temperature", "join_pollution",
                  "join_temperature", "aborted", "exited"}
  /\ tick \in 0..MaxTicks
  /\ fault \in [Units -> {"none", "acquisition", "publish", "poisoned", "cancelled"}]
  /\ holders \subseteq Units
  /\ poisoned \in BOOLEAN

\* the publish calls of unit u in tick t that returned Ok, in order
Sent(u, t) == SelectSeq(log, LAMBDA e : e.unit = u /\ e.tick = t /\ e.ok)

\* the number of messages a unit publishes in one cycle
Expected(u) == IF u = "pollution" THEN 4 ELSE 3

\* the unit failed in its own acquisition or in one of its own publish calls
OwnFailure(u) == pc[u] = "panicked" /\ fault[u] \in {"acquisition", "publish"}

\* C1: fault isolation within a tick: when one unit of a tick has failed
\* (acquisition or publish), the other unit of that tick, none of whose own
\* operations failed, does not end without all its messages published
C1_FaultIsolation ==
  \A u \in Units, v \in Units :
    ( /\ u # v
      /\ OwnFailure(u)
      /\ ~OwnFailure(v)
      /\ pc[v] \in {"panicked", "cancelled"} )
    => Len(Sent(v, tick)) = Expected(v)

\* C2: the scheduler never terminates: main never reaches an aborted or
\* exited state, whatever the outcomes of the sensor and publish calls
C2_SchedulerNeverTerminates == main_pc \notin {"aborted", "exited"}

\* C3: wake failures are absorbed: get_air_quality_status never returns an
\* error result (wake() is its only fallible call that could surface one)
C3_WakeFailureAbsorbed == cycleResult.kind # "Err"

\* C4: reduction is never performed on an empty sample set: whenever the
\* cycle is about to call status_from_measurements, at least one sample has
\* been collected, for every configured count including 0
C4_ReduceNonEmpty == pc["pollution"] = "reduce" => Len(measurements) >= 1

\* C5: the collect loop counts only successes: while it runs, the vector
\* holds one sample per successful read (reads minus failures) and never more
\* than the target; once it has exited, the vector handed to reduction holds
\* exactly num_of_measurements samples, all of them successful reads
C5_CollectCountsSuccesses ==
  /\ pc["pollution"] = "collect" =>
       /\ Len(measurements) <= num_of_measurements
       /\ Len(measurements) = collectReads - collectFails
  /\ pc["pollution"] \in {"sleep", "reduce"} =>
       /\ Len(measurements) = num_of_measurements
       /\ collectReads - collectFails = num_of_measurements
       /\ \A i \in 1..Len(measurements) : measurements[i] \in Frames

\* C5 witness: target 3, five reads, two absorbed failures, loop exited
C5_Witness ==
  /\ pc["pollution"] = "sleep"
  /\ num_of_measurements = 3
  /\ collectReads = 5
  /\ collectFails = 2
  /\ Len(measurements) = 3

\* the messages that reached the connection, in order
Wire == SelectSeq(log, LAMBDA e : e.ok)

\* C6: no multi-message interleaving: among the messages of one tick on the
\* connection, no message of the other pipeline lies between two messages of
\* the same pipeline
C6_NoInterleaving ==
  \A i \in 1..Len(Wire), j \in 1..Len(Wire), k \in 1..Len(Wire) :
    ( /\ i < j
      /\ j < k
      /\ Wire[i].tick = Wire[k].tick
      /\ Wire[i].unit = Wire[k].unit
      /\ Wire[j].tick = Wire[i].tick )
    => Wire[j].unit = Wire[i].unit

\* a unit is inside a statement that publishes on the MqttClient
Publishing(u) ==
  pc[u] \in {"pub_1", "pub_2", "pub_3", "pub_4", "tpub_1", "tpub_2", "tpub_3"}

\* C7: mutual exclusion on the broker connection: at most one unit holds the
\* mutex, a unit about to issue a publish holds it, and so at most one unit is
\* publishing
C7_MutualExclusion ==
  /\ Cardinality(holders) <= 1
  /\ \A u \in Units : Publishing(u) => u \in holders
  /\ Cardinality({u \in Units : Publishing(u)}) <= 1

\* C7 witness: one unit publishes under the lock while the other waits for it
C7_Witness ==
  /\ pc["temperature"] = "tpub_2"
  /\ pc["pollution"] = "lock"
  /\ holders = {"temperature"}

C9_TickBarrier ==
  /\ main_pc = "tick" =>
       \A u \in Units : pc[u] = "idle" /\ started[u] = tick
  /\ main_pc = "spawn_pollution" =>
       \A u \in Units : pc[u] = "idle" /\ started[u] = tick - 1
  /\ main_pc = "spawn_temperature" =>
       /\ pc["temperature"] = "idle"
       /\ started["pollution"] = tick
       /\ started["temperature"] = tick - 1
  /\ main_pc \in {"join_pollution", "join_temperature"} =>
       \A u \in Units : started[u] = tick

\* C9 witness: both units of the second tick have been started
C9_Witness ==
  /\ tick = 2
  /\ main_pc = "join_pollution"
  /\ \A u \in Units : started[u] = 2 /\ pc[u] # "idle"

DigitValue(c) == CHOOSE d \in 0..9 : Digit(d) = c

RECURSIVE FromDecimal(_)
\* the number a sequence of decimal digits denotes
FromDecimal(ds) ==
  IF Len(ds) = 0 THEN 0
  ELSE 10 * FromDecimal(SubSeq(ds, 1, Len(ds) - 1)) + DigitValue(ds[Len(ds)])

\* C10: publish_status output: when publish_status has returned (all its
\* publishes succeeded), the unit has issued exactly four messages in this
\* tick, to <topic>/status, /pm1_0, /pm2_5, /pm10 in that order; the three
\* channel payloads are the decimal renderings of pm_1_0, pm_2_5 and pm_10,
\* the status payload carries the three values and the timestamp, and every
\* message is retained with QoS AtLeastOnce
C10_PublishStatusOutput ==
  pc["pollution"] = "returned" =>
    LET ms == Sent("pollution", tick) IN
      /\ Len(ms) = 4
      /\ << ms[1].msg.topic, ms[2].msg.topic, ms[3].msg.topic, ms[4].msg.topic >>
           = << topic \o "/status", topic \o "/pm1_0", topic \o "/pm2_5",
                topic \o "/pm10" >>
      /\ FromDecimal(ms[2].msg.payload) = status.pm_1_0
      /\ FromDecimal(ms[3].msg.payload) = status.pm_2_5
      /\ FromDecimal(ms[4].msg.payload) = status.pm_10
      /\ Len(ms[1].msg.payload) = 4
      /\ \E f1, f2, f3, f4 \in 1..4 :
           /\ ms[1].msg.payload[f1][1] = "pm_1_0"
           /\ FromDecimal(ms[1].msg.payload[f1][2]) = status.pm_1_0
           /\ ms[1].msg.payload[f2][1] = "pm_2_5"
           /\ FromDecimal(ms[1].msg.payload[f2][2]) = status.pm_2_5
           /\ ms[1].msg.payload[f3][1] = "pm_10"
           /\ FromDecimal(ms[1].msg.payload[f3][2]) = status.pm_10
           /\ ms[1].msg.payload[f4][1] = "timestamp"
           /\ FromDecimal(ms[1].msg.payload[f4][2]) = status.timestamp
      /\ \A i \in 1..4 : ms[i].msg.retain /\ ms[i].msg.qos = "AtLeastOnce"
      /\ Len(SelectSeq(log, LAMBDA e : e.unit = "pollution" /\ e.tick = tick)) = 4

\* C10 witness: publish_status has returned for a status whose three channels
\* differ and have more than one digit
C10_Witness ==
  /\ pc["pollution"] = "returned"
  /\ status.pm_1_0 = 12
  /\ status.pm_2_5 = 25
  /\ status.pm_10 = 40
  /\ topic = "home/air"

RECURSIVE Total(_, _, _)
\* the sum of channel ch over the first n samples of ms
Total(ms, ch, n) == IF n = 0 THEN 0 ELSE Total(ms, ch, n - 1) + ms[n][ch]

\* r is floor(total / n)
IsTruncatedMean(r, total, n) == r * n <= total /\ total < (r + 1) * n

\* C11: aggregation is the truncated integer mean: whenever the cycle reduces
\* a non-empty vector of N samples, each channel of the status it returns is
\* floor(sum of that channel's own values / N)
C11_TruncatedMean ==
  [][ ( /\ pc["pollution"] = "reduce"
        /\ Len(measurements) >= 1
        /\ pc'["pollution"] # "reduce" )
      => /\ cycleResult'.kind = "Ok"
         /\ IsTruncatedMean(cycleResult'.status.pm_1_0,
                            Total(measurements, "pm1_0", Len(measurements)),
                            Len(measurements))
         /\ IsTruncatedMean(cycleResult'.status.pm_2_5,
                            Total(measurements, "pm2_5", Len(measurements)),
                            Len(measurements))
         /\ IsTruncatedMean(cycleResult'.status.pm_10,
                            Total(measurements, "pm10", Len(measurements)),
                            Len(measurements)) ]_vars

\* C11 witness: three samples (1, 1, 12 on pm1_0) were reduced to means that
\* are truncated: 14/3 -> 4, 29/3 -> 9, 46/3 -> 15
C11_Witness ==
  /\ cycleResult.kind = "Ok"
  /\ num_of_measurements = 3
  /\ cycleResult.status.pm_1_0 = 4
  /\ cycleResult.status.pm_2_5 = 9
  /\ cycleResult.status.pm_10 = 15

\* a unit is obtaining its status / measurement
Acquiring(u) ==
  pc[u] \in {"wake", "wake_read", "warmup", "collect", "sleep", "reduce",
             "unwrap", "measure"}

\* a unit is at a mqtt_client.lock() call
AtLock(u) == pc[u] \in {"lock", "lock_1", "lock_2", "lock_3"}

\* C12: the connection lock is not held during sensor work: a unit in its
\* acquisition phase holds no guard; a guard is held only by a unit that has
\* its status / measurement and is inside a publish statement; so a unit
\* waiting to publish while the other unit is acquiring finds the mutex free
C12_LockNotHeldDuringAcquisition ==
  \A u \in Units :
    /\ Acquiring(u) => u \notin holders
    /\ u \in holders =>
         /\ Publishing(u)
         /\ u = "pollution" => status # NoStatus
         /\ u = "temperature" => measurement # NoMeasurement
    /\ \A v \in Units : (Acquiring(u) /\ v # u /\ AtLock(v)) => holders = {}

\* C12 witness: the particulate unit is collecting while the environmental
\* unit publishes under the lock
C12_Witness ==
  /\ pc["pollution"] = "collect"
  /\ Len(measurements) = 1
  /\ pc["temperature"] = "tpub_1"
  /\ holders = {"temperature"}

\* the publish calls unit u has made in this tick, failed ones included
Calls(u) == SelectSeq(log, LAMBDA e : e.unit = u)

\* C13: publish failure is fatal to the cycle and never retried: a failed
\* publish call is the last call its unit makes in the cycle, and no topic is
\* published twice in a cycle
C13_PublishFailureFatal ==
  /\ \A u \in Units :
       \A i \in 1..Len(Calls(u)) : ~Calls(u)[i].ok => i = Len(Calls(u))
  /\ \A i \in 1..Len(log), j \in 1..Len(log) :
       i # j => log[i].msg.topic # log[j].msg.topic

\* C13 witness: the second publish of publish_status failed and the unit has
\* ended with two calls made
C13_Witness ==
  /\ pc["pollution"] = "panicked"
  /\ fault["pollution"] = "publish"
  /\ Len(Calls("pollution")) = 2
  /\ ~Calls("pollution")[2].ok

\* C14: readiness is confirmed only by a successful read: the cycle enters
\* warm-up only from the read of the wake step and only when that read
\* succeeded; that read always follows a successful wake(); when it fails the
\* cycle goes back to calling wake(), and from there the next call on the
\* sensor is wake(), never read()
C14_ReadinessByRead ==
  [][ /\ (pc["pollution"] # "warmup" /\ pc'["pollution"] = "warmup") =>
           (pc["pollution"] = "wake_read" /\ lastCall' = "read_ok")
      /\ pc["pollution"] = "wake_read" => lastCall = "wake_ok"
      /\ (pc["pollution"] = "wake_read" /\ pc'["pollution"] # "wake_read"
            /\ lastCall' = "read_err") => pc'["pollution"] = "wake"
      /\ (pc["pollution"] = "wake" /\ pc'["pollution"] # "wake") =>
           lastCall' \in {"wake_ok", "wake_err"} ]_vars

\* C14 witness: wake() succeeded, the read failed, and the cycle is back at
\* calling wake()
C14_Witness ==
  /\ pc["pollution"] = "wake"
  /\ lastCall = "read_err"
  /\ wakeRetries = 1

\* s is an initial part of t
IsPrefix(s, t) == Len(s) <= Len(t) /\ \A i \in 1..Len(s) : s[i] = t[i]

\* the steps of get_air_quality_status in the order of its statements
CycleOrder == << "wake", "warmup", "collect", "sleep", "reduce" >>

C16_SleepFailureNonFatal ==
  (lastCall = "sleep_err" /\ steps = CycleOrder) =>
    /\ fault["pollution"] # "acquisition"
    /\ pc["pollution"] = "unwrap" => cycleResult.kind = "Ok"

\* C17: warm-up reads are discarded and their failures ignored: the collected
\* set is empty through the wake and warm-up steps, every collected frame
\* comes from a read of the collect step, and after a failed warm-up read the
\* cycle has not failed and leaves collect with exactly num_of_measurements
\* frames
C17_WarmupDiscarded ==
  /\ pc["pollution"] \in {"wake", "wake_read", "warmup"} =>
       (measurements = <<>> /\ collectReads = 0)
  /\ pc["pollution"] = "collect" => Len(measurements) <= collectReads
  /\ warmupErr =>
       /\ cycleResult.kind # "Err"
       /\ fault["pollution"] = "none"
       /\ pc["pollution"] \in {"warmup", "collect", "sleep", "reduce"}
       /\ pc["pollution"] \in {"sleep", "reduce"} =>
            Len(measurements) = num_of_measurements

\* C17 witness: a warm-up read failed and the cycle has left collect with
\* the three frames asked for
C17_Witness ==
  /\ warmupErr
  /\ pc["pollution"] = "sleep"
  /\ num_of_measurements = 3
  /\ Len(measurements) = 3

\* no wake() has failed, no publish has failed and the environmental unit
\* has not failed
Responsive ==
  /\ lastCall # "wake_err"
  /\ \A i \in 1..Len(log) : log[i].ok
  /\ ~poisoned
  /\ fault["temperature"] = "none"

\* C18: cycle completion under a responsive sensor: as long as wake() and
\* the publish calls succeed, the particulate cycle does not end in a
\* failure, from which it could never finish, publish and return its handle,
\* and main is not brought down, so that the next tick can start; and while
\* the cycle is still acquiring, no later tick has been started
C18_CycleCompletes ==
  /\ Responsive =>
       /\ fault["pollution"] = "none"
       /\ main_pc \notin {"aborted", "exited"}
  /\ Acquiring("pollution") => unitTick["pollution"] = tick

\* C19: no deadlock on the shared connection: a unit never asks for the
\* lock while it holds a guard, and a unit waiting at lock() on a mutex that
\* is not poisoned is eventually granted the guard, unless the mutex is
\* poisoned in the meantime
C19_NoDeadlock ==
  /\ [](\A u \in Units : u \in holders => ~AtLock(u))
  /\ \A u \in Units :
       (AtLock(u) /\ ~poisoned) ~> (u \in holders \/ poisoned)

\* C19 witness: the environmental unit waits for its second guard while the
\* particulate unit publishes under the lock
C19_Witness ==
  /\ pc["temperature"] = "lock_2"
  /\ pc["pollution"] = "pub_2"
  /\ holders = {"pollution"}
  /\ ~poisoned

\* C20: ticks are ordered on the wire: every publish call made while tick T
\* is the current tick comes from a unit spawned in tick T, so no message of
\* an earlier tick follows a message of a later one; no topic retains a
\* value of a tick that has not started; and when a tick has completed,
\* every topic retains the value published in that tick
C20_TicksOrdered ==
  /\ \A i \in 1..Len(log) : log[i].tick = tick
  /\ \A u \in Units : Running(u) => unitTick[u] = tick
  /\ \A t \in DOMAIN retained : retained[t] <= tick
  /\ (main_pc = "tick" /\ tick >= 1) =>
       \A t \in DOMAIN retained : retained[t] = tick

\* C20 witness: the second tick has completed and every topic retains the
\* value of the second tick
C20_Witness ==
  /\ main_pc = "tick"
  /\ tick = 2
  /\ \A t \in DOMAIN retained : retained[t] = 2

====
